---- MODULE Spec2Model ----
(***************************************************************************)
(* Model of kwitsch/go-env_wrapper: typed access to environment variables  *)
(* with an override read from secret files named ENV_<NAME>.               *)
(*                                                                         *)
(* Two variants of the accessor live in the repository:                    *)
(*   - package env_wrapper (src/env_wrapper.go): New scans the secrets     *)
(*     directory once and keeps a map, envSecrets;                         *)
(*   - package EnvWrapper (src/unnamed/part_000): New builds a             *)
(*     docker-secrets client and GetStringDef asks it on every call.       *)
(*                                                                         *)
(* A Go string is modelled as a sequence of one-character strings, so      *)
(* that trimming, upper-casing, prefix tests and splitting are computed.   *)
(***************************************************************************)
EXTENDS Integers, Sequences, FiniteSets, TLC

VARIABLES
    dirKind,     \* state of /run/secrets: "missing", "unlistable" or "ok"
    fs,          \* the files of /run/secrets: file name -> file state
    env,         \* the process environment: variable name -> [set, val]
    constructed, \* TRUE once New / Default has returned the accessor w
    envSecrets,  \* w.envSecrets of the snapshot variant
    lw,          \* the accessor of the live-client variant
    result,      \* the last call on an accessor and what it returned
    tick         \* flips on every call, so that each call is a step

vars == <<dirKind, fs, env, constructed, envSecrets, lw, result, tick>>

(***************************************************************************)
(* Bounds                                                                  *)
(***************************************************************************)
\* longest generated environment value handed to GetStringArraySep
MaxLen == 3

(***************************************************************************)
(* Characters and strings                                                  *)
(***************************************************************************)
Lowers == <<"a","b","c","d","e","f","g","h","i","j","k","l","m",
            "n","o","p","q","r","s","t","u","v","w","x","y","z">>

Uppers == <<"A","B","C","D","E","F","G","H","I","J","K","L","M",
            "N","O","P","Q","R","S","T","U","V","W","X","Y","Z">>

\* the characters of the model in byte order (ReadDir sorts by file name)
AsciiOrder == <<"\n", " ", ",", "/", "0", "1">> \o Uppers
              \o <<"\\", "_">> \o Lowers

Ord(c) == CHOOSE i \in 1..Len(AsciiOrder) : AsciiOrder[i] = c

\* the white space strings.TrimSpace cuts, restricted to the model's characters
Whitespace == {" ", "\n"}

\* unicode.ToUpper on one character
UpperChar(c) ==
    IF \E i \in 1..Len(Lowers) : Lowers[i] = c
    THEN Uppers[CHOOSE i \in 1..Len(Lowers) : Lowers[i] = c]
    ELSE c

\* strings.ToUpper
ToUpper(s) == [i \in 1..Len(s) |-> UpperChar(s[i])]

RECURSIVE TrimLeftSet(_, _)
\* strings.TrimLeft(s, cutset)
TrimLeftSet(s, cutset) ==
    IF s # <<>> /\ Head(s) \in cutset THEN TrimLeftSet(Tail(s), cutset) ELSE s

RECURSIVE TrimRight(_, _)
\* strings.TrimRight(s, cutset)
TrimRight(s, cutset) ==
    IF s # <<>> /\ s[Len(s)] \in cutset
    THEN TrimRight(SubSeq(s, 1, Len(s) - 1), cutset)
    ELSE s

\* strings.TrimSpace
TrimSpace(s) == TrimRight(TrimLeftSet(s, Whitespace), Whitespace)

\* strings.HasPrefix
HasPrefix(s, p) == Len(s) >= Len(p) /\ SubSeq(s, 1, Len(p)) = p

\* strings.TrimPrefix
TrimPrefix(s, p) == IF HasPrefix(s, p) THEN SubSeq(s, Len(p) + 1, Len(s)) ELSE s

\* lexicographic byte order on strings
StrLess(a, b) ==
    \/ /\ Len(a) < Len(b)
       /\ SubSeq(b, 1, Len(a)) = a
    \/ \E i \in 1..Len(a) :
          /\ i <= Len(b)
          /\ SubSeq(a, 1, i - 1) = SubSeq(b, 1, i - 1)
          /\ Ord(a[i]) < Ord(b[i])

RECURSIVE Split(_, _)
\* strings.Split(s, sep): with an empty sep the string is cut into its
\* characters, otherwise it is cut at every occurrence of sep, left to right
Split(s, sep) ==
    IF sep = <<>>
    THEN [i \in 1..Len(s) |-> <<s[i]>>]
    ELSE IF \E i \in 1..(Len(s) - Len(sep) + 1) : SubSeq(s, i, i + Len(sep) - 1) = sep
         THEN LET i == CHOOSE j \in 1..(Len(s) - Len(sep) + 1) :
                          /\ SubSeq(s, j, j + Len(sep) - 1) = sep
                          /\ \A k \in 1..(j - 1) : SubSeq(s, k, k + Len(sep) - 1) # sep
              IN  <<SubSeq(s, 1, i - 1)>> \o Split(SubSeq(s, i + Len(sep), Len(s)), sep)
         ELSE <<s>>

\* all strings over alphabet of length at most n
RECURSIVE StrsUpTo(_, _)
StrsUpTo(alphabet, n) ==
    IF n = 0 THEN {<<>>}
    ELSE LET shorter == StrsUpTo(alphabet, n - 1)
         IN  shorter \cup {Append(s, c) : s \in shorter, c \in alphabet}

(***************************************************************************)
(* The secrets directory and the environment                               *)
(***************************************************************************)
\* "/run/secrets", the directory Default() scans
RunSecrets == <<"/","r","u","n","/","s","e","c","r","e","t","s">>

\* "ENV_", the prefix of a secret file's name
EnvPrefix == <<"E","N","V","_">>

\* the file names the model puts into the secrets directory:
\* ENV_K and ENV_k differ only in case, env_K has a lower-case prefix
FileNames == { <<"E","N","V","_","K">>, <<"E","N","V","_","k">>,
               <<"e","n","v","_","K">> }

\* the environment variables of the model
EnvNames == { <<"K">> }

\* the names callers ask for: K, k (same key after upper-casing) and N,
\* which no source ever holds
Names == { <<"K">>, <<"k">>, <<"N">> }

NoFile == [kind |-> "none", content |-> <<>>, readable |-> FALSE]

DirEntry == [kind |-> "dir", content |-> <<>>, readable |-> TRUE]

RegularFile(c) == [kind |-> "file", content |-> c, readable |-> TRUE]

Unreadable(c) == [kind |-> "file", content |-> c, readable |-> FALSE]

Unset == [set |-> FALSE, val |-> <<>>]

SetTo(v) == [set |-> TRUE, val |-> v]

\* os.Getenv: the value of the variable, "" when it is not set
Getenv(k) == IF k \in DOMAIN env /\ env[k].set THEN env[k].val ELSE <<>>

\* os.Stat(path) followed by os.IsNotExist: only /run/secrets can exist,
\* and stat of the empty path fails with ENOENT
IsNotExist(path) == ~(path = RunSecrets /\ dirKind # "missing")

\* ioutil.ReadDir fails on a directory that cannot be listed
ReadDirFails(path) == ~(path = RunSecrets /\ dirKind = "ok")

RECURSIVE SortNames(_)
SortNames(S) ==
    IF S = {} THEN <<>>
    ELSE LET m == CHOOSE x \in S : \A y \in S \ {x} : StrLess(x, y)
         IN  <<m>> \o SortNames(S \ {m})

\* ioutil.ReadDir: the names of the directory's entries, sorted by name
ReadDir(path) == SortNames({f \in FileNames : fs[f].kind # "none"})

\* a map assignment that keeps the value of a key already there
Put_KeepFirst(m, k, v) ==
    [x \in (DOMAIN m) \cup {k} |-> IF x \in DOMAIN m THEN m[x] ELSE v]

\* map assignment m[k] = v
Put(m, k, v) == [x \in (DOMAIN m) \cup {k} |-> IF x = k THEN v ELSE m[x]]

\* map read m[k]: the zero value "" for a missing key
MapGet(m, k) == IF k \in DOMAIN m THEN m[k] ELSE <<>>

EmptyMap == [x \in {} |-> <<>>]

(***************************************************************************)
(* Snapshot variant, package env_wrapper                                   *)
(***************************************************************************)
RECURSIVE ScanFiles_StopAtError(_, _)
\* the loop of New leaving the directory at the first file it cannot read
ScanFiles_StopAtError(files, m) ==
    IF files = <<>> THEN m
    ELSE LET name == Head(files)
             file == fs[name]
         IN  IF /\ HasPrefix(name, EnvPrefix)
                /\ file.kind # "dir"
                /\ Len(file.content) > 0
             THEN IF file.readable
                  THEN ScanFiles_StopAtError(Tail(files),
                          [x \in (DOMAIN m) \cup {TrimPrefix(ToUpper(name), EnvPrefix)} |->
                              IF x = TrimPrefix(ToUpper(name), EnvPrefix)
                              THEN TrimSpace(file.content) ELSE m[x]])
                  ELSE m
             ELSE ScanFiles_StopAtError(Tail(files), m)

RECURSIVE ScanFiles(_, _)
\* the loop of New over the directory listing
ScanFiles(files, m) ==
    IF files = <<>> THEN m
    ELSE LET name == Head(files)
             file == fs[name]
         IN  IF /\ HasPrefix(name, EnvPrefix)
                /\ file.kind # "dir"
                /\ Len(file.content) > 0
             THEN IF file.readable
                  THEN LET sval    == TrimSpace(file.content)
                           keyname == TrimPrefix(ToUpper(name), EnvPrefix)
                       IN  ScanFiles(Tail(files), Put(m, keyname, sval))
                  ELSE ScanFiles(Tail(files), m)
             ELSE ScanFiles(Tail(files), m)

\* New(secretsDir): the envSecrets map of the accessor it returns
New(secretsDir) ==
    LET path == TrimRight(TrimSpace(secretsDir), {"\\", "/"})
    IN  IF ~IsNotExist(path)
        THEN IF ~ReadDirFails(path)
             THEN ScanFiles(ReadDir(path), EmptyMap)
             ELSE EmptyMap
        ELSE EmptyMap

\* Default()
Default == New(RunSecrets)

\* GetStringDef asking the environment before the snapshot
GetStringDef_EnvFirst(w, name, defval) ==
    LET upname == ToUpper(name)
        envval == TrimSpace(Getenv(upname))
    IN  IF Len(envval) > 0
        THEN envval
        ELSE IF Len(MapGet(w, upname)) > 0 THEN MapGet(w, upname) ELSE defval

\* GetStringDef testing the presence of the key instead of the value's length
GetStringDef_KeyPresent(w, name, defval) ==
    LET upname == ToUpper(name)
    IN  IF upname \in DOMAIN w
        THEN w[upname]
        ELSE LET envval == TrimSpace(Getenv(upname))
             IN  IF Len(envval) > 0 THEN envval ELSE defval

\* w.GetStringDef(name, defval)
GetStringDef(w, name, defval) ==
    LET upname  == ToUpper(name)
        senvval == MapGet(w, upname)
    IN  IF Len(senvval) > 0
        THEN senvval
        ELSE LET envval == TrimSpace(Getenv(upname))
             IN  IF Len(envval) > 0 THEN envval ELSE defval

\* w.GetString(name)
GetString(w, name) == GetStringDef(w, name, <<>>)

\* a ParseBool that folds the case of its argument before comparing
ParseBool_FoldCase(str) ==
    IF ToUpper(str) \in { <<"1">>, <<"T">>, <<"T","R","U","E">> }
    THEN [ok |-> TRUE, val |-> TRUE]
    ELSE IF ToUpper(str) \in { <<"0">>, <<"F">>, <<"F","A","L","S","E">> }
         THEN [ok |-> TRUE, val |-> FALSE]
         ELSE [ok |-> FALSE, val |-> FALSE]

\* strconv.ParseBool: the literals it accepts, anything else is an error
ParseBool(str) ==
    IF str \in { <<"1">>, <<"t">>, <<"T">>, <<"T","R","U","E">>,
                 <<"t","r","u","e">>, <<"T","r","u","e">> }
    THEN [ok |-> TRUE, val |-> TRUE]
    ELSE IF str \in { <<"0">>, <<"f">>, <<"F">>, <<"F","A","L","S","E">>,
                      <<"f","a","l","s","e">>, <<"F","a","l","s","e">> }
         THEN [ok |-> TRUE, val |-> FALSE]
         ELSE [ok |-> FALSE, val |-> FALSE]

\* w.GetBoolDef(name, defval)
GetBoolDef(w, name, defval) ==
    LET strval == GetString(w, name)
    IN  IF Len(strval) > 0 /\ ParseBool(strval).ok
        THEN ParseBool(strval).val
        ELSE defval

RECURSIVE CleanParts_KeepEmpty(_, _)
\* the loop of GetStringArraySep without the test of the trimmed part's length
CleanParts_KeepEmpty(strparts, res) ==
    IF strparts = <<>> THEN res
    ELSE CleanParts_KeepEmpty(Tail(strparts), Append(res, TrimSpace(Head(strparts))))

RECURSIVE CleanParts(_, _)
\* the loop of GetStringArraySep over the split parts
CleanParts(strparts, res) ==
    IF strparts = <<>> THEN res
    ELSE LET cleans == TrimSpace(Head(strparts))
         IN  IF Len(cleans) > 0
             THEN CleanParts(Tail(strparts), Append(res, cleans))
             ELSE CleanParts(Tail(strparts), res)

\* w.GetStringArraySep(name, seperator)
GetStringArraySep(w, name, seperator) ==
    LET strval == GetString(w, name)
    IN  IF Len(strval) > 0
        THEN CleanParts(Split(strval, seperator), <<>>)
        ELSE <<>>

(***************************************************************************)
(* State machine of the snapshot variant                                   *)
(***************************************************************************)
DirKinds == {"missing", "unlistable", "ok"}

\* contents of secret files: empty, white space only, and two values
FileContents == { <<>>, <<"\n">>, <<"s">>, <<" ","t","\n">> }

FileStates ==
    {NoFile, DirEntry, Unreadable(<<"s">>)} \cup {RegularFile(c) : c \in FileContents}

\* env_K carries no secret whatever it holds: it is there or not
OtherFileStates == {NoFile, RegularFile(<<"s">>)}

FsStates ==
    {f \in [FileNames -> FileStates] :
        f[<<"e","n","v","_","K">>] \in OtherFileStates}

\* values of environment variables: empty, white space only, and a value
\* with white space around it
EnvValues == { <<>>, <<"\n">>, <<" ","e","\n">> }

\* defaults handed to GetStringDef: GetString's "" and an untrimmed one
Defaults == { <<>>, <<" ","d">> }

\* directories handed to New
DirArgs == { <<>>, RunSecrets, <<" ">> \o RunSecrets \o <<"/","\\","/","\n">>,
             <<"/","s">> }

Separators == { <<",">>, <<" ">> }

\* no call yet; value is a string result, bvalue a boolean one and parts an
\* array one, defval and bdef the string or boolean default of the call
NoCall == [op |-> "none", arg |-> <<>>, defval |-> <<>>, sep |-> <<>>,
           value |-> <<>>, bdef |-> FALSE, bvalue |-> FALSE, parts |-> <<>>,
           panic |-> FALSE]

InitLive == [constructed |-> FALSE, secretsEnabled |-> FALSE, client |-> "nil"]

Init ==
    /\ dirKind \in DirKinds
    /\ fs \in FsStates
    /\ env \in [EnvNames -> {Unset} \cup {SetTo(v) : v \in EnvValues}]
    /\ constructed = FALSE
    /\ envSecrets = EmptyMap
    /\ lw = InitLive
    /\ result = NoCall
    /\ tick = 0

\* w := New(secretsDir)
NewCall(secretsDir) ==
    /\ ~constructed
    /\ constructed' = TRUE
    /\ envSecrets' = New(secretsDir)
    /\ result' = [NoCall EXCEPT !.op = "New", !.arg = secretsDir]
    /\ tick' = 1 - tick
    /\ UNCHANGED <<dirKind, fs, env, lw>>

\* w := Default()
DefaultCall ==
    /\ ~constructed
    /\ constructed' = TRUE
    /\ envSecrets' = Default
    /\ result' = [NoCall EXCEPT !.op = "Default"]
    /\ tick' = 1 - tick
    /\ UNCHANGED <<dirKind, fs, env, lw>>

\* GetStringDef answering from the previous call of the same name
GetStringDefCall_Cached(name, defval) ==
    /\ constructed
    /\ result' = [NoCall EXCEPT !.op = "GetStringDef", !.arg = name,
                                !.defval = defval,
                                !.value = IF result.op = "GetStringDef" /\ result.arg = name
                                          THEN result.value
                                          ELSE GetStringDef(envSecrets, name, defval)]
    /\ tick' = 1 - tick
    /\ UNCHANGED <<dirKind, fs, env, constructed, envSecrets, lw>>

\* GetStringDef keeping the environment's value in the accessor's map
GetStringDefCall_Memo(name, defval) ==
    /\ constructed
    /\ result' = [NoCall EXCEPT !.op = "GetStringDef", !.arg = name,
                                !.defval = defval,
                                !.value = GetStringDef(envSecrets, name, defval)]
    /\ envSecrets' = [x \in (DOMAIN envSecrets) \cup {ToUpper(name)} |->
                        IF x = ToUpper(name)
                        THEN GetStringDef(envSecrets, name, <<>>)
                        ELSE envSecrets[x]]
    /\ tick' = 1 - tick
    /\ UNCHANGED <<dirKind, fs, env, constructed, lw>>

\* w.GetStringDef(name, defval); w.GetString(name) is the call with defval ""
GetStringDefCall(name, defval) ==
    /\ constructed
    /\ result' = [NoCall EXCEPT !.op = "GetStringDef", !.arg = name,
                                !.defval = defval,
                                !.value = GetStringDef(envSecrets, name, defval)]
    /\ tick' = 1 - tick
    /\ UNCHANGED <<dirKind, fs, env, constructed, envSecrets, lw>>

\* w.GetBoolDef(name, defval); w.GetBool(name) is the call with defval false
GetBoolDefCall(name, defval) ==
    /\ constructed
    /\ result' = [NoCall EXCEPT !.op = "GetBoolDef", !.arg = name,
                                !.bdef = defval,
                                !.bvalue = GetBoolDef(envSecrets, name, defval)]
    /\ tick' = 1 - tick
    /\ UNCHANGED <<dirKind, fs, env, constructed, envSecrets, lw>>

\* w.GetStringArraySep(name, seperator); w.GetStringArray(name) is the call
\* with seperator " "
GetStringArraySepCall(name, seperator) ==
    /\ constructed
    /\ result' = [NoCall EXCEPT !.op = "GetStringArraySep", !.arg = name,
                                !.sep = seperator,
                                !.parts = GetStringArraySep(envSecrets, name, seperator)]
    /\ tick' = 1 - tick
    /\ UNCHANGED <<dirKind, fs, env, constructed, envSecrets, lw>>

\* the process or its host sets an environment variable
Setenv(k, v) ==
    /\ env[k] # SetTo(v)
    /\ env' = [env EXCEPT ![k] = SetTo(v)]
    /\ UNCHANGED <<dirKind, fs, constructed, envSecrets, lw, result, tick>>

\* the process or its host unsets an environment variable
Unsetenv(k) ==
    /\ env[k].set
    /\ env' = [env EXCEPT ![k] = Unset]
    /\ UNCHANGED <<dirKind, fs, constructed, envSecrets, lw, result, tick>>

\* a file of the secrets directory is created, rewritten, made unreadable
\* or deleted
FileChange(f, st) ==
    /\ fs[f] # st
    /\ fs' = [fs EXCEPT ![f] = st]
    /\ fs' \in FsStates
    /\ UNCHANGED <<dirKind, env, constructed, envSecrets, lw, result, tick>>

\* the secrets directory appears, disappears or changes its permissions
DirChange(kind) ==
    /\ dirKind # kind
    /\ dirKind' = kind
    /\ UNCHANGED <<fs, env, constructed, envSecrets, lw, result, tick>>

Next ==
    \/ \E d \in DirArgs : NewCall(d)
    \/ DefaultCall
    \/ \E n \in Names, d \in Defaults : GetStringDefCall(n, d)
    \/ \E n \in EnvNames, d \in BOOLEAN : GetBoolDefCall(n, d)
    \/ \E n \in EnvNames, s \in Separators : GetStringArraySepCall(n, s)
    \/ \E k \in EnvNames, v \in EnvValues : Setenv(k, v)
    \/ \E k \in EnvNames : Unsetenv(k)
    \/ \E f \in FileNames, st \in FileStates : FileChange(f, st)
    \/ \E k \in DirKinds : DirChange(k)

Spec == Init /\ [][Next]_vars

(***************************************************************************)
(* GetBoolDef on its own: the inputs are drawn at the start                *)
(***************************************************************************)
\* the spellings of word with every mix of upper and lower case letters
Casings(word) ==
    {[i \in 1..Len(word) |-> IF m[i] THEN UpperChar(word[i]) ELSE word[i]] :
        m \in [1..Len(word) -> BOOLEAN]}

\* values handed to ParseBool through the environment or a secret
BoolInputs ==
    Casings(<<"t","r","u","e">>) \cup Casings(<<"f","a","l","s","e">>)
    \cup Casings(<<"t">>) \cup Casings(<<"f">>)
    \cup { <<"1">>, <<"0">>, <<>>, <<"a">>, <<"1","0">>,
           <<" ","f","a","l","s","e","\n">> }

BoolSecrets == { <<"T","R","U","E">>, <<"t","R","u","E">> }

InitBool ==
    /\ dirKind = "ok"
    /\ fs \in {[f \in FileNames |-> IF f = <<"E","N","V","_","K">> THEN st ELSE NoFile] :
                  st \in {NoFile} \cup {RegularFile(c) : c \in BoolSecrets}}
    /\ env \in [EnvNames -> {Unset} \cup {SetTo(v) : v \in BoolInputs}]
    /\ constructed = FALSE
    /\ envSecrets = EmptyMap
    /\ lw = InitLive
    /\ result = NoCall
    /\ tick = 0

NextBool ==
    \/ DefaultCall
    \/ \E n \in Names, d \in BOOLEAN : GetBoolDefCall(n, d)

SpecBool == InitBool /\ [][NextBool]_vars

(***************************************************************************)
(* GetStringArraySep on its own: the inputs are drawn at the start         *)
(***************************************************************************)
\* " a, b ,,c "
ListExample == <<" ","a",","," ","b"," ",",",",","c"," ">>

ArrInputs == StrsUpTo({" ", ",", "a", "b"}, MaxLen) \cup {ListExample}

ArrSeparators == { <<",">>, <<" ">>, <<>>, <<",", " ">>, <<"a">> }

InitArr ==
    /\ dirKind = "ok"
    /\ fs \in {[f \in FileNames |-> IF f = <<"E","N","V","_","K">> THEN st ELSE NoFile] :
                  st \in {NoFile, RegularFile(<<"b",",","b","\n">>), RegularFile(<<"\n">>)}}
    /\ env \in [EnvNames -> {Unset} \cup {SetTo(v) : v \in ArrInputs}]
    /\ constructed = FALSE
    /\ envSecrets = EmptyMap
    /\ lw = InitLive
    /\ result = NoCall
    /\ tick = 0

NextArr ==
    \/ DefaultCall
    \/ \E n \in Names, s \in ArrSeparators : GetStringArraySepCall(n, s)

SpecArr == InitArr /\ [][NextArr]_vars

(***************************************************************************)
(* Live-client variant, package EnvWrapper                                 *)
(***************************************************************************)
\* secrets.NewDockerSecrets(secretsDir) returns no error: the library reads
\* /run/secrets for an empty secretsDir and fails on a directory it cannot read
NewDockerSecretsOk(secretsDir) ==
    /\ dirKind = "ok"
    /\ secretsDir \in {<<>>, RunSecrets}

\* New(secretsDir) of package EnvWrapper: secretsEnabled is (err != nil)
LiveNew(secretsDir) ==
    [constructed    |-> TRUE,
     secretsEnabled |-> ~NewDockerSecretsOk(secretsDir),
     client         |-> IF NewDockerSecretsOk(secretsDir) THEN "ok" ELSE "nil"]

\* what w.secretsReader.Get(secname) can do on the reader that came with an
\* error: dereference nil and panic, or return with or without an error
ReaderOutcomes == {"panic", "error", "found"}

\* w.GetStringDef(name, defval) of package EnvWrapper; outcome is what the
\* call of w.secretsReader.Get does when it is made
LiveGetStringDef(name, defval, outcome) ==
    LET upname == ToUpper(name)
        hasval == lw.secretsEnabled /\ outcome = "error"
        envval == TrimSpace(Getenv(upname))
    IN  IF lw.secretsEnabled /\ outcome = "panic"
        THEN [panic |-> TRUE, value |-> <<>>]
        ELSE IF hasval
             THEN [panic |-> FALSE, value |-> TrimSpace(<<>>)]
             ELSE [panic |-> FALSE,
                   value |-> IF Len(envval) > 0 THEN envval ELSE defval]

\* w := New(secretsDir) of package EnvWrapper
LiveNewCall(secretsDir) ==
    /\ ~lw.constructed
    /\ lw' = LiveNew(secretsDir)
    /\ result' = [NoCall EXCEPT !.op = "LiveNew", !.arg = secretsDir]
    /\ tick' = 1 - tick
    /\ UNCHANGED <<dirKind, fs, env, constructed, envSecrets>>

\* w := Default() of package EnvWrapper, which is New("")
LiveDefaultCall ==
    /\ ~lw.constructed
    /\ lw' = LiveNew(<<>>)
    /\ result' = [NoCall EXCEPT !.op = "LiveDefault"]
    /\ tick' = 1 - tick
    /\ UNCHANGED <<dirKind, fs, env, constructed, envSecrets>>

\* w.GetStringDef(name, defval) of package EnvWrapper
LiveGetStringDefCall(name, defval) ==
    /\ lw.constructed
    /\ \E outcome \in ReaderOutcomes :
          result' = [NoCall EXCEPT !.op = "LiveGetStringDef", !.arg = name,
                        !.defval = defval,
                        !.value = LiveGetStringDef(name, defval, outcome).value,
                        !.panic = LiveGetStringDef(name, defval, outcome).panic]
    /\ tick' = 1 - tick
    /\ UNCHANGED <<dirKind, fs, env, constructed, envSecrets, lw>>

NextLive ==
    \/ \E d \in DirArgs : LiveNewCall(d)
    \/ LiveDefaultCall
    \/ \E n \in Names, d \in Defaults : LiveGetStringDefCall(n, d)

SpecLive == Init /\ [][NextLive]_vars

(***************************************************************************)
(* Vocabulary of the properties                                            *)
(***************************************************************************)
\* s without its leading and trailing white space, stated by positions
Trimmed(s) ==
    LET solid == {i \in 1..Len(s) : s[i] \notin Whitespace}
    IN  IF solid = {} THEN <<>>
        ELSE SubSeq(s, CHOOSE i \in solid : \A j \in solid : i <= j,
                       CHOOSE i \in solid : \A j \in solid : j <= i)

\* what the environment yields for key k at this moment, d when it yields nothing
EnvOrDefault(k, d) ==
    IF k \in EnvNames /\ env[k].set /\ Trimmed(env[k].val) # <<>>
    THEN Trimmed(env[k].val)
    ELSE d

\* the snapshot holds a non-empty secret for key k
HasSecret(k) == k \in DOMAIN envSecrets /\ envSecrets[k] # <<>>

\* the step is a call of op on the accessor
CallOf(op) == tick' # tick /\ result'.op = op

\* the step is the construction of the accessor
Construction == ~constructed /\ constructed'

\* dir names /run/secrets: white space around it and slashes after it are cut
DenotesRunSecrets(dir) ==
    LET p == Trimmed(dir)
    IN  /\ Len(p) >= Len(RunSecrets)
        /\ SubSeq(p, 1, Len(RunSecrets)) = RunSecrets
        /\ \A i \in (Len(RunSecrets) + 1)..Len(p) : p[i] \in {"/", "\\"}

\* the construction scans /run/secrets and can list it
ScansRunSecrets ==
    /\ Construction
    /\ dirKind = "ok"
    /\ \/ result'.op = "Default"
       \/ result'.op = "New" /\ DenotesRunSecrets(result'.arg)

\* the construction is given a directory that does not exist or that
\* cannot be listed
NothingToScan ==
    /\ Construction
    /\ \/ result'.op = "Default" /\ dirKind # "ok"
       \/ result'.op = "New" /\ DenotesRunSecrets(result'.arg) /\ dirKind # "ok"
       \/ result'.op = "New" /\ Trimmed(result'.arg) # <<>>
                             /\ ~DenotesRunSecrets(result'.arg)

\* f is a regular file of size > 0 whose name starts with ENV_
Qualifies(f) ==
    /\ fs[f].kind = "file"
    /\ Len(fs[f].content) > 0
    /\ Len(f) >= 4
    /\ f[1] = "E" /\ f[2] = "N" /\ f[3] = "V" /\ f[4] = "_"

\* the key file f is stored under: its upper-cased name without ENV_
KeyOf(f) == [i \in 1..(Len(f) - 4) |-> UpperChar(f[i + 4])]

KeyK == <<"K">>

ENV_K == <<"E","N","V","_","K">>

ENV_k == <<"E","N","V","_","k">>

(***************************************************************************)
(* C1: GetStringDef(n, d) returns the snapshot's entry for upper(n) when   *)
(* it exists and is non-empty, otherwise the trimmed environment value of  *)
(* upper(n) when that is set and non-empty, otherwise d as passed: a       *)
(* non-empty secret wins over the environment, a key in neither source     *)
(* yields d.                                                               *)
(***************************************************************************)
C1_FallbackChain ==
    [][CallOf("GetStringDef") =>
         LET k == [i \in 1..Len(result'.arg) |-> UpperChar(result'.arg[i])]
         IN  result'.value = IF HasSecret(k) THEN envSecrets[k]
                             ELSE EnvOrDefault(k, result'.defval)]_vars

\* a call answered from the secret although the environment holds a value
C1_Witness ==
    /\ result.op = "GetStringDef"
    /\ result.arg = <<"k">>
    /\ HasSecret(KeyK)
    /\ env[KeyK] = SetTo(<<" ","e","\n">>)
    /\ result.value = envSecrets[KeyK]
    /\ result.value # <<"e">>

\* the upper-cased name of the last call
CalledKey == [i \in 1..Len(result'.arg) |-> UpperChar(result'.arg[i])]

\* the readable qualifying files stored under key k
LoadedFor(k) == {f \in FileNames : Qualifies(f) /\ fs[f].readable /\ KeyOf(f) = k}

\* the position of file f in the directory listing
ListedAt(f) == CHOOSE i \in 1..Len(ReadDir(RunSecrets)) : ReadDir(RunSecrets)[i] = f

C3_EnvironmentIsLive ==
    [][(CallOf("GetStringDef") /\ ~HasSecret(CalledKey)) =>
         /\ env' = env
         /\ result'.value =
              IF CalledKey \in EnvNames /\ env'[CalledKey].set
                 /\ Trimmed(env'[CalledKey].val) # <<>>
              THEN Trimmed(env'[CalledKey].val)
              ELSE result'.defval]_vars

\* a read of K that finds the variable unset and returns the default
C3_Witness ==
    /\ constructed
    /\ ~HasSecret(KeyK)
    /\ result.op = "GetStringDef"
    /\ result.arg = KeyK
    /\ result.defval = <<" ","d">>
    /\ env[KeyK] = Unset
    /\ result.value = <<" ","d">>

(***************************************************************************)
(* C4: the snapshot is fixed once New has returned: no Get call, no change *)
(* of the environment and no change of the secrets directory changes       *)
(* envSecrets.                                                             *)
(***************************************************************************)
C4_SnapshotIsFixed == [][constructed => envSecrets' = envSecrets]_vars

\* the snapshot still holds the secret of a file that has been deleted since
C4_Witness ==
    /\ constructed
    /\ HasSecret(KeyK)
    /\ \A f \in FileNames : fs[f] = NoFile
    /\ result.op = "GetStringDef"
    /\ result.value = envSecrets[KeyK]

(***************************************************************************)
(* C5: construction is total and degrades silently.  As claimed: New with  *)
(* a missing or unlistable directory gives an empty snapshot, calls on an  *)
(* empty snapshot are pure environment fallback, and an unreadable file    *)
(* makes its own key absent while every other qualifying file is loaded.   *)
(***************************************************************************)
C5_AsClaimed ==
    [][/\ NothingToScan => envSecrets' = EmptyMap
       /\ (CallOf("GetStringDef") /\ DOMAIN envSecrets = {})
          => result'.value = EnvOrDefault(CalledKey, result'.defval)
       /\ ScansRunSecrets =>
            \A f \in FileNames :
               Qualifies(f) =>
                  IF fs[f].readable
                  THEN KeyOf(f) \in DOMAIN envSecrets'
                  ELSE KeyOf(f) \notin DOMAIN envSecrets']_vars

(***************************************************************************)
(* C5, amended: an unreadable file adds no entry, so its key is absent     *)
(* unless a readable qualifying file has the same key; the keys of the     *)
(* snapshot are exactly the keys of the readable qualifying files.  New    *)
(* yields a snapshot for every directory argument and directory state.     *)
(***************************************************************************)
C5_SilentConstruction ==
    [][/\ ~constructed => \A d \in DirArgs : DOMAIN New(d) \subseteq {KeyK}
       /\ NothingToScan => envSecrets' = EmptyMap
       /\ (CallOf("GetStringDef") /\ DOMAIN envSecrets = {})
          => result'.value = EnvOrDefault(CalledKey, result'.defval)
       /\ ScansRunSecrets =>
            DOMAIN envSecrets' =
               {KeyOf(f) : f \in {g \in FileNames : Qualifies(g) /\ fs[g].readable}}]_vars

\* ENV_K cannot be read, ENV_k can: the key K is there, with ENV_k's value
C5_Witness ==
    /\ result.op = "New"
    /\ dirKind = "ok"
    /\ fs[ENV_K] = Unreadable(<<"s">>)
    /\ fs[ENV_k] = RegularFile(<<" ","t","\n">>)
    /\ envSecrets = Put(EmptyMap, KeyK, <<"t">>)

(***************************************************************************)
(* C8: the empty path selects the default directory: New("") builds the    *)
(* snapshot Default() builds.                                              *)
(***************************************************************************)
C8_EmptyPathIsDefault ==
    [][(Construction /\ result'.op = "New" /\ result'.arg = <<>>)
         => envSecrets' = Default]_vars

(***************************************************************************)
(* C10: last writer wins.  As claimed: every key of the snapshot is the    *)
(* key of a qualifying file, and its value is the trimmed content of the   *)
(* last qualifying file of that key in the directory listing.              *)
(***************************************************************************)
C10_AsClaimed ==
    [][ScansRunSecrets =>
         \A k \in DOMAIN envSecrets' :
            \E f \in FileNames :
               /\ Qualifies(f) /\ KeyOf(f) = k
               /\ \A g \in FileNames :
                     (Qualifies(g) /\ KeyOf(g) = k) => ListedAt(g) <= ListedAt(f)
               /\ envSecrets'[k] = Trimmed(fs[f].content)]_vars

(***************************************************************************)
(* C10, amended: the value of a key is the trimmed content of the last     *)
(* qualifying file of that key that could be read; a later file replaces   *)
(* an earlier one's value also when it trims to the empty string.          *)
(***************************************************************************)
C10_LastReadableWins ==
    [][ScansRunSecrets =>
         \A k \in DOMAIN envSecrets' :
            \E f \in LoadedFor(k) :
               /\ \A g \in LoadedFor(k) : ListedAt(g) <= ListedAt(f)
               /\ envSecrets'[k] = Trimmed(fs[f].content)]_vars

\* ENV_K holds a value and ENV_k, listed after it, only white space: the
\* entry of K is empty
C10_Witness ==
    /\ result.op = "Default"
    /\ fs[ENV_K] = RegularFile(<<"s">>)
    /\ fs[ENV_k] = RegularFile(<<"\n">>)
    /\ KeyK \in DOMAIN envSecrets
    /\ envSecrets[KeyK] = <<>>

\* the string the last call resolved through the fallback chain
Resolved ==
    IF HasSecret(CalledKey) THEN envSecrets[CalledKey]
    ELSE EnvOrDefault(CalledKey, <<>>)

\* s with its upper case letters replaced by lower case ones
Lower(s) ==
    [i \in 1..Len(s) |->
        IF \E j \in 1..Len(Uppers) : Uppers[j] = s[i]
        THEN Lowers[CHOOSE j \in 1..Len(Uppers) : Uppers[j] = s[i]]
        ELSE s[i]]

TrueLiterals == { <<"1">>, <<"t">>, <<"T">>, <<"t","r","u","e">>,
                  <<"T","r","u","e">>, <<"T","R","U","E">> }

FalseLiterals == { <<"0">>, <<"f">>, <<"F">>, <<"f","a","l","s","e">>,
                   <<"F","a","l","s","e">>, <<"F","A","L","S","E">> }

(***************************************************************************)
(* C6, as claimed: GetBoolDef returns the parsed boolean for "true" and    *)
(* "false" in any mix of upper and lower case (and for 1, 0, t, f), and    *)
(* the default for the empty string and for anything else.                 *)
(***************************************************************************)
C6_AsClaimed ==
    [][CallOf("GetBoolDef") =>
         result'.bvalue =
            IF Lower(Resolved) \in {<<"t","r","u","e">>, <<"t">>, <<"1">>} THEN TRUE
            ELSE IF Lower(Resolved) \in {<<"f","a","l","s","e">>, <<"f">>, <<"0">>}
                 THEN FALSE
                 ELSE result'.bdef]_vars

(***************************************************************************)
(* C6, amended: GetBoolDef returns the parsed boolean exactly for the      *)
(* literals 1, t, T, true, True, TRUE and 0, f, F, false, False, FALSE,    *)
(* and the default for the empty string and every other string, the other  *)
(* casings of "true" and "false" (such as fAlSe) included.                 *)
(***************************************************************************)
C6_ParseBoolLiterals ==
    [][CallOf("GetBoolDef") =>
         result'.bvalue =
            IF Resolved \in TrueLiterals THEN TRUE
            ELSE IF Resolved \in FalseLiterals THEN FALSE
                 ELSE result'.bdef]_vars

\* X is "fAlSe" in the environment and GetBoolDef(X, true) returns true
C6_Witness ==
    /\ result.op = "GetBoolDef"
    /\ ~HasSecret(KeyK)
    /\ result.arg = KeyK
    /\ env[KeyK] = SetTo(<<"f","A","l","S","e">>)
    /\ result.bdef = TRUE
    /\ result.bvalue = TRUE

\* the parts joined by sep
RECURSIVE Join(_, _)
Join(parts, sep) ==
    IF Len(parts) = 0 THEN <<>>
    ELSE IF Len(parts) = 1 THEN parts[1]
         ELSE parts[1] \o sep \o Join(Tail(parts), sep)

\* sep occurs in s
Occurs(sep, s) ==
    \E i \in 1..(Len(s) - Len(sep) + 1) : SubSeq(s, i, i + Len(sep) - 1) = sep

\* parts is a cut of s at occurrences of sep that leaves none in a part
IsSplitOf(parts, s, sep) ==
    /\ Join(parts, sep) = s
    /\ sep # <<>> => \A i \in 1..Len(parts) : ~Occurs(sep, parts[i])
    /\ sep = <<>> => \A i \in 1..Len(parts) : Len(parts[i]) = 1

NotEmpty(s) == s # <<>>

(***************************************************************************)
(* C7: GetStringArraySep returns the parts of the resolved string split on *)
(* the literal separator, each trimmed, without the parts that are empty   *)
(* after trimming, in their order and with duplicates kept; it returns the *)
(* empty sequence for an empty string; no element is empty or has leading  *)
(* or trailing white space; " a, b ,,c " split on "," gives a, b, c.       *)
(***************************************************************************)
C7_TrimmedParts ==
    [][CallOf("GetStringArraySep") =>
         \A s \in {Resolved}, r \in {result'.parts} :
            \A parts \in {Split(s, result'.sep)} :
               /\ s # <<>> => IsSplitOf(parts, s, result'.sep)
               /\ s = <<>> => r = <<>>
               /\ s # <<>> =>
                     r = SelectSeq([i \in 1..Len(parts) |-> Trimmed(parts[i])], NotEmpty)
               /\ \A i \in 1..Len(r) :
                     /\ r[i] # <<>>
                     /\ r[i][1] \notin Whitespace
                     /\ r[i][Len(r[i])] \notin Whitespace
               /\ (env[KeyK] = SetTo(ListExample) /\ ~HasSecret(KeyK)
                     /\ CalledKey = KeyK /\ result'.sep = <<",">>)
                  => r = << <<"a">>, <<"b">>, <<"c">> >>]_vars

\* the list " a, b ,,c " cut at the commas
C7_Witness ==
    /\ result.op = "GetStringArraySep"
    /\ result.arg = <<"k">>
    /\ result.sep = <<",">>
    /\ ~HasSecret(KeyK)
    /\ env[KeyK] = SetTo(ListExample)
    /\ result.parts = << <<"a">>, <<"b">>, <<"c">> >>

(***************************************************************************)
(* C9: in the live-client variant GetStringDef returns the trimmed secret  *)
(* ENV_<upper(name)> when that secret is present and the secrets client    *)
(* was constructed, and ignores the environment; otherwise it returns the  *)
(* trimmed environment value when non-empty and the default otherwise; it  *)
(* never panics.                                                           *)
(***************************************************************************)
C9_SecretWinsInLiveVariant ==
    [][CallOf("LiveGetStringDef") =>
         LET secname == EnvPrefix \o CalledKey
             present == /\ lw.client = "ok"
                        /\ secname \in FileNames
                        /\ fs[secname].kind = "file"
                        /\ fs[secname].readable
         IN  /\ ~result'.panic
             /\ result'.value = IF present THEN Trimmed(fs[secname].content)
                                ELSE EnvOrDefault(CalledKey, result'.defval)]_vars

====
